---- MODULE Spec2Model ----
(***************************************************************************)
(* The durable background-job queue of backend/src/queue.rs and the worker *)
(* pool of backend/src/job_worker.rs.  Every store command (ZADD, ZREM,    *)
(* ZRANGEBYSCORE, LLEN, LPOP, RPUSH) is one step, so that the commands of  *)
(* concurrent operations interleave as they do against the real store.     *)
(* Wall-clock time is counted in ticks, config.ticks_per_sec to the second; *)
(* scores are whole seconds (DateTime::timestamp).                         *)
(***************************************************************************)
EXTENDS Integers, Sequences, FiniteSets, TLC

\* ------------------------------------------------------------ bounds
MaxJobs == 2          \* jobs the producers enqueue in one run
MaxTime == 1          \* seconds the clock runs
MaxFailures == 3      \* failing processor invocations counted per job
MaxAttempt == 5       \* attempt numbers calculate_backoff_delay is evaluated at

NONE == -1            \* Option::None of retries and scheduled_at

VARIABLES
  config,       \* QueueConfig and worker_count, with the clock's resolution and horizon;
                \* fixed at construction
  now,          \* the wall clock, in ticks
  main,         \* zaps:jobs:queue        sorted set
  processing,   \* zaps:jobs:processing   sorted set
  retry,        \* zaps:jobs:retry        sorted set
  dead,         \* zaps:jobs:dead_letter  list
  pc,           \* per worker: the store command its iteration is about to issue
  loc,          \* per worker: the locals of process_next_job and its callees
  promoter,     \* the retry queue processor task: position and locals
  reclaimer,    \* the stalled job reclaimer task: position and locals
  next_id,      \* ids handed out so far (Uuid::new_v4 is fresh each time)
  delivered,    \* history: ids passed to processor.process
  succeeded,    \* history: ids for which a processor returned success
  evicted,      \* history: ids of dead-letter records dropped by LPOP
  completed,    \* history: ids whose entry complete_job removed from processing
  failures      \* history: id -> number of failing processor invocations

vars == <<config, now, main, processing, retry, dead, pc, loc, promoter, reclaimer,
          next_id, delivered, succeeded, evicted, completed, failures>>

store == <<main, processing, retry, dead>>
hist == <<delivered, succeeded, evicted, completed, failures>>

Workers == 1..config.worker_count

\* ------------------------------------------------------------ job_types.rs
JobType == {"EMAIL", "NOTIFICATION", "SYNC", "BLOCKCHAIN_TX"}

\* JobProcessorRegistry::new registers one processor per kind.
Registered == {"EMAIL", "NOTIFICATION", "SYNC", "BLOCKCHAIN_TX"}

\* The bodies producers submit: the sync helper with no extra data (one key), and
\* enqueue_job with a body of several keys.
Bodies == {[job_type |-> "SYNC", payload |-> {"sync_type"}],
           [job_type |-> "EMAIL", payload |-> {"to", "subject"}]}

\* A body enqueue_job accepts although its processor can only fail on it: an email
\* without "to".
MalformedBodies == {[job_type |-> "EMAIL", payload |-> {"subject"}]}

\* The keys each processor cannot do without.
RequiredKeys(job_type) ==
  CASE job_type = "EMAIL" -> {"to"}
    [] job_type = "NOTIFICATION" -> {"user_id"}
    [] job_type = "SYNC" -> {"sync_type"}
    [] job_type = "BLOCKCHAIN_TX" -> {"from_address", "to_address", "amount"}

RECURSIVE PermSeqs(_)
\* Every order in which a HashMap with key set S can iterate.
PermSeqs(S) == IF S = {} THEN {<<>>}
               ELSE UNION {{<<x>> \o p : p \in PermSeqs(S \ {x})} : x \in S}

Range(s) == {s[i] : i \in DOMAIN s}

\* DateTime::timestamp: whole seconds, the sub-second part is dropped.
timestamp(t) == t \div config.ticks_per_sec

\* Duration::from_secs, in ticks.
Secs(n) == n * config.ticks_per_sec

unwrap_or(opt, default) == IF opt = NONE THEN default ELSE opt

\* Mutant of JobPayload_new: the job starts with one attempt counted.
JobPayload_new_attempted(id, job_type, payload, retries, t) ==
  [id |-> id, job_type |-> job_type, payload |-> payload, retries |-> 1,
   created_at |-> t, scheduled_at |-> NONE]

\* JobPayload::new: a job in memory.  payload is the HashMap, held as the sequence
\* of its keys in the iteration order of this HashMap instance.
JobPayload_new(id, job_type, payload, retries, t) ==
  [id |-> id, job_type |-> job_type, payload |-> payload, retries |-> retries,
   created_at |-> t, scheduled_at |-> NONE]

JobPayload_with_delay(id, job_type, payload, retries, t, delay) ==
  [JobPayload_new(id, job_type, payload, retries, t) EXCEPT !.scheduled_at = t + delay]

\* serde_json::to_string(&JobPayload): the fields in declaration order, the
\* payload keys in the iteration order of the HashMap.
to_string(job) ==
  <<job.id, job.job_type, job.payload, job.retries, job.created_at, job.scheduled_at>>

\* from_str(s).is_err(): s is no JobPayload (here: its job_type is no variant of
\* JobType).
is_err(s) == s[2] \notin JobType

\* serde_json::from_str::<JobPayload>: the payload is collected into a new HashMap,
\* whose iteration order (RandomState) is any order of the keys.
\* A string that is no JobPayload makes from_str return Err: the empty set of results.
from_str(s) ==
  IF is_err(s) THEN {}
  ELSE {[id |-> s[1], job_type |-> s[2], payload |-> p, retries |-> s[4],
         created_at |-> s[5], scheduled_at |-> s[6]] : p \in PermSeqs(Range(s[3]))}

\* An entry of the store that does not deserialize.
CorruptEntry == <<0, "CORRUPT", <<>>, NONE, 0, NONE>>

IdOf(s) == s[1]
RetriesOf(s) == s[4]

\* ------------------------------------------------------------ the store
\* A sorted set is a set of [member, score] with one score per member.
ZAdd(z, m, score) == {e \in z : e.member # m} \cup {[member |-> m, score |-> score]}
ZRem(z, m) == {e \in z : e.member # m}
Members(z) == {e.member : e \in z}
Ids(z) == {IdOf(e.member) : e \in z}

\* ZRANGE key 0 -1: every member in score order; members of equal score come in
\* the store's byte order, an arbitrary but fixed one.
ZRange(z) ==
  LET p == CHOOSE q \in PermSeqs(z) : \A i, j \in 1..Len(q) : i < j => q[i].score <= q[j].score
  IN [i \in 1..Len(p) |-> p[i].member]

\* ZRANGEBYSCORE key -inf max: the members with score <= max, in that order.
ZRangeByScore(z, max) == ZRange({e \in z : e.score <= max})

\* ------------------------------------------------------------ queue.rs
\* A QueueConfig scaled to the clock's horizon, and the pool's worker_count.
\* delay is what producers pass to enqueue_delayed_job (seconds), bodies what they
\* pass as payload.
SmallConfig ==
  [max_retries |-> 2, visibility_timeout |-> 1, backoff_multiplier |-> 2,
   max_backoff |-> 1, dead_letter_max_size |-> 1, worker_count |-> 2,
   delay |-> 1, ticks_per_sec |-> 1, horizon |-> MaxTime, jobs |-> MaxJobs,
   bodies |-> Bodies]

\* The same pool with one job and a clock of half seconds.
SubSecConfig == [SmallConfig EXCEPT !.jobs = 1, !.ticks_per_sec = 2, !.horizon = 2]

\* A pool that dead-letters on the first failure into a list of two, with the
\* clock standing still.
DeadLetterConfig ==
  [SmallConfig EXCEPT !.max_retries = 1, !.dead_letter_max_size = 2, !.jobs = 3,
                      !.horizon = 0]

\* A pool whose backoff grows: three attempts, delays of 2 s and 4 s, one job.
BackoffConfig ==
  [SmallConfig EXCEPT !.max_retries = 3, !.max_backoff = 4, !.jobs = 1, !.horizon = 2]

\* A pool of one worker that retries up to five attempts, one job, two seconds.
RetryConfig ==
  [SmallConfig EXCEPT !.max_retries = 5, !.worker_count = 1, !.jobs = 1, !.horizon = 2]

\* The same pool with one job, for the interleavings of all five tasks.
OneJobConfig == [SmallConfig EXCEPT !.jobs = 1, !.horizon = 1]

\* A pool that dead-letters on the first failure, with the clock standing still,
\* for the interleavings of two workers on two jobs.
NoRetryConfig == [SmallConfig EXCEPT !.max_retries = 1, !.jobs = 2, !.horizon = 0]

RECURSIVE powi(_, _)
powi(b, n) == IF n = 0 THEN 1 ELSE b * powi(b, n - 1)

Min(a, b) == IF a <= b THEN a ELSE b

\* `multiplier as u32` of a whole-valued f64: the cast saturates, a negative value
\* becomes 0 (a value above u32::MAX, which becomes u32::MAX, is beyond the numbers
\* the model computes with).
as_u32(f) == IF f < 0 THEN 0 ELSE f

\* Mutant of calculate_backoff_delay: the exponent is the number of earlier attempts.
calculate_backoff_delay_early(attempt) ==
  LET base_delay == 1
      multiplier == powi(config.backoff_multiplier, attempt - 1)
      delay == base_delay * as_u32(multiplier)
  IN Secs(Min(delay, config.max_backoff))

\* calculate_backoff_delay, in ticks.
calculate_backoff_delay(attempt) ==
  LET base_delay == 1
      multiplier == powi(config.backoff_multiplier, attempt)
      delay == base_delay * as_u32(multiplier)
  IN Secs(Min(delay, config.max_backoff))

\* History: sole, no ZADD has put job_json into main since dequeue returned it;
\* dead_seen, the dead-letter list when send_to_dead_letter read its length.
NoLocals ==
  [job_json |-> <<>>,
   job |-> [id |-> 0, job_type |-> "", payload |-> <<>>, retries |-> NONE,
            created_at |-> 0, scheduled_at |-> NONE],
   error |-> "", target |-> <<>>,
   dlq_json |-> [original_job |-> <<>>, error |-> "", failed_at |-> 0, total_attempts |-> 0],
   sole |-> FALSE, dead_seen |-> <<>>]

\* History: entry m enters main, so the workers that were handed m no longer hold it alone.
PutBack(l, m) ==
  [w \in DOMAIN l |-> IF l[w].sole /\ l[w].job_json = m THEN [l[w] EXCEPT !.sole = FALSE]
                      ELSE l[w]]

\* JobQueue::new over a store that holds m, p and r in main, processing and retry.
InitStore(c, m, p, r) ==
  /\ config = c
  /\ now = 0
  /\ main = m /\ processing = p /\ retry = r /\ dead = <<>>
  /\ pc = [w \in 1..config.worker_count |-> "idle"]
  /\ loc = [w \in 1..config.worker_count |-> NoLocals]
  /\ promoter = [pc |-> "idle", retry_jobs |-> <<>>]
  /\ reclaimer = [pc |-> "idle", stalled_jobs |-> <<>>, reclaimed_count |-> 0]
  /\ next_id = 0
  /\ delivered = {} /\ succeeded = {} /\ evicted = {} /\ completed = {}
  /\ failures = [i \in 1..c.jobs |-> 0]

\* JobQueue::new over an empty store.
InitWith(c) == InitStore(c, {}, {}, {})

Init == InitWith(SmallConfig) \/ InitWith(SubSecConfig) \/ InitWith(DeadLetterConfig)

\* The wall clock advances.
Tick ==
  /\ now < Secs(config.horizon)
  /\ now' = now + 1
  /\ UNCHANGED <<config, store, pc, loc, promoter, reclaimer, next_id, hist>>

\* Mutant of enqueue: the score is written in milliseconds (timestamp_millis).
enqueue_millis(job) ==
  main' = ZAdd(main, to_string(job), 1000 * (1 + timestamp(unwrap_or(job.scheduled_at, now))))

\* JobQueue::enqueue: one ZADD into main with score = scheduled_at ?? now.
enqueue(job) ==
  main' = ZAdd(main, to_string(job), timestamp(unwrap_or(job.scheduled_at, now)))

\* JobWorker::enqueue_job / enqueue_delayed_job, called by a producer.
Enqueue ==
  /\ next_id < config.jobs
  /\ \E body \in config.bodies : \E delayed \in BOOLEAN :
       LET id == next_id + 1
           \* the producer's HashMap iterates in some order; which one is immaterial,
           \* every later from_str is free to differ from it or not
           payload == CHOOSE p \in PermSeqs(body.payload) : TRUE
           job == IF delayed
                  THEN JobPayload_with_delay(id, body.job_type, payload, NONE, now, Secs(config.delay))
                  ELSE JobPayload_new(id, body.job_type, payload, NONE, now)
       IN /\ unwrap_or(job.scheduled_at, now) <= Secs(config.horizon)
          /\ enqueue(job)
  /\ next_id' = next_id + 1
  /\ UNCHANGED <<config, now, processing, retry, dead, pc, loc, promoter, reclaimer, hist>>


\* ------------------------------------------------------------ job_worker.rs, queue.rs
WorkerVarsUnchanged == UNCHANGED <<config, now, promoter, reclaimer, next_id>>

\* Mutant of DequeueRead: the ready entry of the highest score is taken
\* (ZREVRANGEBYSCORE).
DequeueRead_newest(w) ==
  /\ pc[w] = "idle"
  /\ LET jobs == ZRangeByScore(main, timestamp(now))
     IN /\ jobs # <<>>
        /\ IF is_err(jobs[Len(jobs)])
           THEN /\ pc' = [pc EXCEPT ![w] = "err_sleep"]
                /\ loc' = [loc EXCEPT ![w] = [NoLocals EXCEPT !.job_json = jobs[Len(jobs)]]]
           ELSE /\ pc' = [pc EXCEPT ![w] = "deq_zrem"]
                /\ \E job \in from_str(jobs[Len(jobs)]) :
                     loc' = [loc EXCEPT ![w] = [NoLocals EXCEPT !.job_json = jobs[Len(jobs)],
                                                                !.job = job]]
  /\ UNCHANGED <<store, hist>>
  /\ WorkerVarsUnchanged

\* JobQueue::dequeue, first command: ZRANGEBYSCORE main -inf now LIMIT 1, then
\* from_str of the entry read.  With nothing ready it returns None and the worker
\* sleeps, which changes nothing.
DequeueRead(w) ==
  /\ pc[w] = "idle"
  /\ LET jobs == ZRangeByScore(main, timestamp(now))
     IN /\ jobs # <<>>
        /\ IF is_err(jobs[1])
           THEN \* "Failed to deserialize job": Err, before any ZREM
                /\ pc' = [pc EXCEPT ![w] = "err_sleep"]
                /\ loc' = [loc EXCEPT ![w] = [NoLocals EXCEPT !.job_json = jobs[1]]]
           ELSE /\ pc' = [pc EXCEPT ![w] = "deq_zrem"]
                /\ \E job \in from_str(jobs[1]) :
                     loc' = [loc EXCEPT ![w] = [NoLocals EXCEPT !.job_json = jobs[1],
                                                                !.job = job]]
  /\ UNCHANGED <<store, hist>>
  /\ WorkerVarsUnchanged

\* JobQueue::dequeue, second command: ZREM main job_json (its reply is dropped).
DequeueZrem(w) ==
  /\ pc[w] = "deq_zrem"
  /\ main' = ZRem(main, loc[w].job_json)
  /\ pc' = [pc EXCEPT ![w] = "deq_zadd"]
  /\ UNCHANGED <<processing, retry, dead, loc, hist>>
  /\ WorkerVarsUnchanged

\* Mutant of RetryRoute: a failed job is retried whatever its attempt count.
RetryRoute_always(job) == "rt_zadd"

\* Mutant of RetryRoute: the job is dead-lettered one attempt late (> for >=).
RetryRoute_late(job) ==
  LET current_attempt == unwrap_or(job.retries, 0) + 1
  IN IF current_attempt > config.max_retries THEN "dl_llen" ELSE "rt_zadd"

\* JobQueue::retry_job, lines 146-150: where a failed job goes next.
RetryRoute(job) ==
  LET current_attempt == unwrap_or(job.retries, 0) + 1
  IN IF current_attempt >= config.max_retries THEN "dl_llen" ELSE "rt_zadd"

\* JobQueue::dequeue, third command: ZADD processing job_json now+visibility_timeout;
\* dequeue returns the job and process_next_job looks its processor up.
DequeueZadd(w) ==
  /\ pc[w] = "deq_zadd"
  /\ processing' = ZAdd(processing, loc[w].job_json,
                        timestamp(now + Secs(config.visibility_timeout)))
  /\ IF loc[w].job.job_type \in Registered
     THEN /\ pc' = [pc EXCEPT ![w] = "process"]
          /\ delivered' = delivered \cup {loc[w].job.id}
          /\ loc' = [loc EXCEPT ![w].sole = TRUE]
     ELSE /\ pc' = [pc EXCEPT ![w] = RetryRoute(loc[w].job)]
          /\ loc' = [loc EXCEPT ![w].error = "No processor found", ![w].sole = TRUE]
          /\ delivered' = delivered
  /\ UNCHANGED <<main, retry, dead, succeeded, evicted, completed, failures>>
  /\ WorkerVarsUnchanged

\* Mutant of Process: every Ok result is completed, result.success is not looked at.
Process_any_ok(w) ==
  /\ pc[w] = "process"
  /\ \E outcome \in {"success", "failure", "error"} :
       IF outcome = "success"
       THEN /\ pc' = [pc EXCEPT ![w] = "cmp_zrange"]
            /\ succeeded' = succeeded \cup {loc[w].job.id}
            /\ UNCHANGED <<loc, failures>>
       ELSE /\ failures[loc[w].job.id] < MaxFailures
            /\ pc' = [pc EXCEPT ![w] = IF outcome = "failure" THEN "cmp_zrange"
                                       ELSE RetryRoute(loc[w].job)]
            /\ loc' = [loc EXCEPT ![w].error = "processor error"]
            /\ failures' = [failures EXCEPT ![loc[w].job.id] = @ + 1]
            /\ succeeded' = succeeded
  /\ UNCHANGED <<store, delivered, evicted, completed>>
  /\ WorkerVarsUnchanged

\* processor.process(&job) returns: Ok(success), Ok(failure) or Err.
Process(w) ==
  /\ pc[w] = "process"
  /\ \E outcome \in {"success", "failure", "error"} :
       IF outcome = "success"
       THEN /\ pc' = [pc EXCEPT ![w] = "cmp_zrange"]
            /\ succeeded' = succeeded \cup {loc[w].job.id}
            /\ UNCHANGED <<loc, failures>>
       ELSE /\ failures[loc[w].job.id] < MaxFailures
            /\ pc' = [pc EXCEPT ![w] = RetryRoute(loc[w].job)]
            /\ loc' = [loc EXCEPT ![w].error = "processor error"]
            /\ failures' = [failures EXCEPT ![loc[w].job.id] = @ + 1]
            /\ succeeded' = succeeded
  /\ UNCHANGED <<store, delivered, evicted, completed>>
  /\ WorkerVarsUnchanged

\* JobQueue::complete_job(job_id) run to its end on a processing partition p: what
\* it leaves in processing (an Err leaves p as it is).
complete_job(p, job_id) ==
  LET jobs == ZRange(p)
      stops == {i \in 1..Len(jobs) : is_err(jobs[i]) \/ IdOf(jobs[i]) = job_id}
      first == CHOOSE i \in stops : \A j \in stops : i <= j
  IN IF stops = {} THEN p
     ELSE IF is_err(jobs[first]) THEN p
     ELSE ZRem(p, jobs[first])

\* JobQueue::complete_job, first command: ZRANGE processing 0 -1, then the scan
\* for the first entry whose id is job_id.
CompleteZrange(w) ==
  /\ pc[w] = "cmp_zrange"
  /\ LET jobs == ZRange(processing)
         \* the scan stops at the first entry that fails from_str or has the id
         stops == {i \in 1..Len(jobs) :
                     is_err(jobs[i]) \/ IdOf(jobs[i]) = loc[w].job.id}
         first == CHOOSE i \in stops : \A j \in stops : i <= j
     IN IF stops = {}
        THEN /\ pc' = [pc EXCEPT ![w] = "idle"]
             /\ loc' = [loc EXCEPT ![w] = NoLocals]
        ELSE IF is_err(jobs[first])
        THEN \* "Failed to deserialize processing job": Err
             /\ pc' = [pc EXCEPT ![w] = "err_sleep"]
             /\ loc' = [loc EXCEPT ![w].error = "Failed to deserialize processing job"]
        ELSE /\ pc' = [pc EXCEPT ![w] = "cmp_zrem"]
             /\ loc' = [loc EXCEPT ![w].target = jobs[first]]
  /\ UNCHANGED <<store, hist>>
  /\ WorkerVarsUnchanged

\* JobQueue::complete_job, second command: ZREM processing of the entry found.
CompleteZrem(w) ==
  /\ pc[w] = "cmp_zrem"
  /\ processing' = ZRem(processing, loc[w].target)
  /\ completed' = IF loc[w].target \in Members(processing)
                  THEN completed \cup {loc[w].job.id} ELSE completed
  /\ pc' = [pc EXCEPT ![w] = "idle"]
  /\ loc' = [loc EXCEPT ![w] = NoLocals]
  /\ UNCHANGED <<main, retry, dead, delivered, succeeded, evicted, failures>>
  /\ WorkerVarsUnchanged

\* Mutant of RetryJob: the retried job keeps its attempt count.
RetryJob_uncounted(job, t) ==
  LET current_attempt == unwrap_or(job.retries, 0) + 1
  IN [job EXCEPT !.retries = unwrap_or(job.retries, 0),
                 !.scheduled_at = t + calculate_backoff_delay(current_attempt)]

\* The job retry_job builds: attempts + 1, scheduled after the backoff.
RetryJob(job, t) ==
  LET current_attempt == unwrap_or(job.retries, 0) + 1
  IN [job EXCEPT !.retries = current_attempt,
                 !.scheduled_at = t + calculate_backoff_delay(current_attempt)]

\* JobQueue::retry_job, first command: ZADD retry retry_job scheduled_at.
RetryZadd(w) ==
  /\ pc[w] = "rt_zadd"
  /\ LET retry_job == RetryJob(loc[w].job, now)
     IN retry' = ZAdd(retry, to_string(retry_job), timestamp(retry_job.scheduled_at))
  /\ pc' = [pc EXCEPT ![w] = "rt_zrem"]
  /\ UNCHANGED <<main, processing, dead, loc, hist>>
  /\ WorkerVarsUnchanged

\* JobQueue::retry_job, second command: ZREM processing to_string(&job).
RetryZrem(w) ==
  /\ pc[w] = "rt_zrem"
  /\ processing' = ZRem(processing, to_string(loc[w].job))
  /\ pc' = [pc EXCEPT ![w] = "idle"]
  /\ loc' = [loc EXCEPT ![w] = NoLocals]
  /\ UNCHANGED <<main, retry, dead, hist>>
  /\ WorkerVarsUnchanged

\* The DeadLetterJob send_to_dead_letter builds.
DeadLetterJob(job, error, t, total_attempts) ==
  [original_job |-> to_string(job), error |-> error, failed_at |-> t,
   total_attempts |-> total_attempts]

\* JobQueue::send_to_dead_letter, first command: LLEN dead_letter.
DeadLetterLlen(w) ==
  /\ pc[w] = "dl_llen"
  /\ LET current_size == Len(dead)
     IN pc' = [pc EXCEPT ![w] = IF current_size >= config.dead_letter_max_size
                                THEN "dl_lpop" ELSE "dl_rpush"]
  /\ loc' = [loc EXCEPT ![w].dlq_json =
               DeadLetterJob(loc[w].job, loc[w].error, now,
                             unwrap_or(loc[w].job.retries, 0) + 1),
                         ![w].dead_seen = dead]
  /\ UNCHANGED <<store, hist>>
  /\ WorkerVarsUnchanged

\* Mutant of DeadLetterLpop: the newest record is dropped (RPOP) instead of the oldest.
DeadLetterLpop_newest(w) ==
  /\ pc[w] = "dl_lpop"
  /\ IF dead = <<>>
     THEN UNCHANGED <<dead, evicted>>
     ELSE /\ dead' = SubSeq(dead, 1, Len(dead) - 1)
          /\ evicted' = evicted \cup {IdOf(dead[Len(dead)].original_job)}
  /\ pc' = [pc EXCEPT ![w] = "dl_rpush"]
  /\ UNCHANGED <<main, processing, retry, loc, delivered, succeeded, completed, failures>>
  /\ WorkerVarsUnchanged

\* JobQueue::send_to_dead_letter, the eviction: LPOP dead_letter (nil on an empty list).
DeadLetterLpop(w) ==
  /\ pc[w] = "dl_lpop"
  /\ IF dead = <<>>
     THEN UNCHANGED <<dead, evicted>>
     ELSE /\ dead' = Tail(dead)
          /\ evicted' = evicted \cup {IdOf(Head(dead).original_job)}
  /\ pc' = [pc EXCEPT ![w] = "dl_rpush"]
  /\ UNCHANGED <<main, processing, retry, loc, delivered, succeeded, completed, failures>>
  /\ WorkerVarsUnchanged

\* JobQueue::send_to_dead_letter: RPUSH dead_letter dlq_json.
DeadLetterRpush(w) ==
  /\ pc[w] = "dl_rpush"
  /\ dead' = Append(dead, loc[w].dlq_json)
  /\ pc' = [pc EXCEPT ![w] = "dl_zrem"]
  /\ UNCHANGED <<main, processing, retry, loc, hist>>
  /\ WorkerVarsUnchanged

\* JobQueue::send_to_dead_letter, last command: ZREM processing to_string(&job).
DeadLetterZrem(w) ==
  /\ pc[w] = "dl_zrem"
  /\ processing' = ZRem(processing, to_string(loc[w].job))
  /\ pc' = [pc EXCEPT ![w] = "idle"]
  /\ loc' = [loc EXCEPT ![w] = NoLocals]
  /\ UNCHANGED <<main, retry, dead, hist>>
  /\ WorkerVarsUnchanged

\* The tracing events worker w's step through send_to_dead_letter emits, by level:
\* nothing at LLEN, LPOP and RPUSH, and error!("Job {} sent to dead letter queue
\* after {} attempts") once the last command, the ZREM, has returned.
send_to_dead_letter_events(w) ==
  IF pc[w] = "dl_zrem" /\ pc'[w] = "idle" THEN <<"error">> ELSE <<>>

\* Mutant of ErrorSleep: the Err arm leaves the loop and the worker task ends.
ErrorSleep_exit(w) ==
  /\ pc[w] = "err_sleep"
  /\ pc' = [pc EXCEPT ![w] = "dead"]
  /\ UNCHANGED <<store, loc, hist>>
  /\ WorkerVarsUnchanged

\* The worker loop's Err arm: log, sleep one second, start the next iteration.
ErrorSleep(w) ==
  /\ pc[w] = "err_sleep"
  /\ pc' = [pc EXCEPT ![w] = "idle"]
  /\ loc' = [loc EXCEPT ![w] = NoLocals]
  /\ UNCHANGED <<store, hist>>
  /\ WorkerVarsUnchanged

\* The store command the worker is about to issue (or pool.get before it) returns
\* Err: `?` hands it up to the worker loop.
StoreError(w) ==
  /\ pc[w] \notin {"process", "poll_sleep", "err_sleep", "dead"}
  /\ pc' = [pc EXCEPT ![w] = "err_sleep"]
  /\ UNCHANGED <<store, loc, hist>>
  /\ WorkerVarsUnchanged

\* The worker is killed after it started an iteration (between core operations that
\* is inside its processor); one worker stays alive.
Kill(w) ==
  /\ pc[w] \notin {"idle", "poll_sleep", "err_sleep", "dead"}
  /\ \E v \in Workers \ {w} : pc[v] # "dead"
  /\ pc' = [pc EXCEPT ![w] = "dead"]
  /\ UNCHANGED <<store, loc, hist>>
  /\ WorkerVarsUnchanged

\* Mutant of DequeueNone: dequeue returns None whatever main holds.
DequeueNone_ready(w) ==
  /\ pc[w] = "idle"
  /\ pc' = [pc EXCEPT ![w] = "poll_sleep"]
  /\ UNCHANGED <<store, loc, hist>>
  /\ WorkerVarsUnchanged

\* JobQueue::dequeue when ZRANGEBYSCORE main -inf now returns nothing: Ok(None),
\* and the worker loop's Ok(None) arm starts its 100 ms sleep.
DequeueNone(w) ==
  /\ pc[w] = "idle"
  /\ ZRangeByScore(main, timestamp(now)) = <<>>
  /\ pc' = [pc EXCEPT ![w] = "poll_sleep"]
  /\ UNCHANGED <<store, loc, hist>>
  /\ WorkerVarsUnchanged

\* The sleep is over: the loop starts its next iteration, which calls dequeue.
PollSleep(w) ==
  /\ pc[w] = "poll_sleep"
  /\ pc' = [pc EXCEPT ![w] = "idle"]
  /\ UNCHANGED <<store, loc, hist>>
  /\ WorkerVarsUnchanged

WorkerStep(w) ==
  \/ DequeueRead(w) \/ DequeueZrem(w) \/ DequeueZadd(w)
  \/ Process(w)
  \/ CompleteZrange(w) \/ CompleteZrem(w)
  \/ RetryZadd(w) \/ RetryZrem(w)
  \/ DeadLetterLlen(w) \/ DeadLetterLpop(w) \/ DeadLetterRpush(w) \/ DeadLetterZrem(w)

\* ------------------------------------------------------------ the periodic tasks
TaskVarsUnchanged == UNCHANGED <<config, now, pc, next_id>>

\* Mutant of PromoteRead: every entry of retry is read, due or not (ZRANGE 0 -1).
PromoteRead_all ==
  /\ promoter.pc = "idle"
  /\ LET retry_jobs == ZRange(retry)
     IN /\ retry_jobs # <<>>
        /\ promoter' = [pc |-> "zrem", retry_jobs |-> retry_jobs]
  /\ UNCHANGED <<store, reclaimer, loc, hist>>
  /\ TaskVarsUnchanged

\* JobQueue::process_retry_queue, first command: ZRANGEBYSCORE retry -inf now.
PromoteRead ==
  /\ promoter.pc = "idle"
  /\ LET retry_jobs == ZRangeByScore(retry, timestamp(now))
     IN /\ retry_jobs # <<>>
        /\ promoter' = [pc |-> "zrem", retry_jobs |-> retry_jobs]
  /\ UNCHANGED <<store, reclaimer, loc, hist>>
  /\ TaskVarsUnchanged

\* JobQueue::process_retry_queue, per entry: ZREM retry job_json.
PromoteZrem ==
  /\ promoter.pc = "zrem"
  /\ IF is_err(Head(promoter.retry_jobs))
     THEN \* "Failed to deserialize retry job": Err, the rest of the batch is left
          /\ promoter' = [pc |-> "failed", retry_jobs |-> <<>>]
          /\ retry' = retry
     ELSE /\ retry' = ZRem(retry, Head(promoter.retry_jobs))
          /\ promoter' = [promoter EXCEPT !.pc = "zadd"]
  /\ UNCHANGED <<main, processing, dead, reclaimer, loc, hist>>
  /\ TaskVarsUnchanged

\* Mutant of PromoteZadd: the promoted job is scored with the time of the promotion.
PromoteZadd_now ==
  /\ promoter.pc = "zadd"
  /\ LET job_json == Head(promoter.retry_jobs)
         rest == Tail(promoter.retry_jobs)
     IN \E job \in from_str(job_json) :
          /\ main' = ZAdd(main, job_json, timestamp(now))
          /\ loc' = PutBack(loc, job_json)
          /\ promoter' = IF rest = <<>> THEN [pc |-> "idle", retry_jobs |-> <<>>]
                         ELSE [pc |-> "zrem", retry_jobs |-> rest]
  /\ UNCHANGED <<processing, retry, dead, reclaimer, hist>>
  /\ TaskVarsUnchanged

\* JobQueue::process_retry_queue, per entry: ZADD main job_json scheduled_at.
PromoteZadd ==
  /\ promoter.pc = "zadd"
  /\ LET job_json == Head(promoter.retry_jobs)
         rest == Tail(promoter.retry_jobs)
     IN \E job \in from_str(job_json) :
          IF job.scheduled_at = NONE
          THEN \* scheduled_at.unwrap() panics and the task ends
               /\ promoter' = [pc |-> "panicked", retry_jobs |-> <<>>]
               /\ UNCHANGED <<main, loc>>
          ELSE /\ main' = ZAdd(main, job_json, timestamp(job.scheduled_at))
               /\ loc' = PutBack(loc, job_json)
               /\ promoter' = IF rest = <<>> THEN [pc |-> "idle", retry_jobs |-> <<>>]
                              ELSE [pc |-> "zrem", retry_jobs |-> rest]
  /\ UNCHANGED <<processing, retry, dead, reclaimer, hist>>
  /\ TaskVarsUnchanged

\* The promoter's loop after Err: log, wait for the next tick of its interval.
PromoteResume ==
  /\ promoter.pc = "failed"
  /\ promoter' = [pc |-> "idle", retry_jobs |-> <<>>]
  /\ UNCHANGED <<store, reclaimer, loc, hist>>
  /\ TaskVarsUnchanged

\* Mutant of ReclaimRead: the leases that end within the next visibility timeout are
\* taken as well.
ReclaimRead_ahead ==
  /\ reclaimer.pc = "idle"
  /\ LET stalled_jobs == ZRangeByScore(processing,
                                       timestamp(now + Secs(config.visibility_timeout)))
     IN reclaimer' = [pc |-> IF stalled_jobs = <<>> THEN "idle" ELSE "zrem",
                      stalled_jobs |-> stalled_jobs, reclaimed_count |-> 0]
  /\ UNCHANGED <<store, promoter, loc, hist>>
  /\ TaskVarsUnchanged

\* Mutant of ReclaimRead: every entry of processing is taken (ZRANGE 0 -1).
ReclaimRead_all ==
  /\ reclaimer.pc = "idle"
  /\ LET stalled_jobs == ZRange(processing)
     IN reclaimer' = [pc |-> IF stalled_jobs = <<>> THEN "idle" ELSE "zrem",
                      stalled_jobs |-> stalled_jobs, reclaimed_count |-> 0]
  /\ UNCHANGED <<store, promoter, loc, hist>>
  /\ TaskVarsUnchanged

\* JobQueue::reclaim_stalled_jobs, first command: ZRANGEBYSCORE processing -inf now.
\* With nothing stalled the loop body does not run and the call returns
\* reclaimed_count = 0.
ReclaimRead ==
  /\ reclaimer.pc = "idle"
  /\ LET stalled_jobs == ZRangeByScore(processing, timestamp(now))
     IN reclaimer' = [pc |-> IF stalled_jobs = <<>> THEN "idle" ELSE "zrem",
                      stalled_jobs |-> stalled_jobs, reclaimed_count |-> 0]
  /\ UNCHANGED <<store, promoter, loc, hist>>
  /\ TaskVarsUnchanged

\* JobQueue::reclaim_stalled_jobs, per entry: ZREM processing job_json.
ReclaimZrem ==
  /\ reclaimer.pc = "zrem"
  /\ IF is_err(Head(reclaimer.stalled_jobs))
     THEN \* "Failed to deserialize stalled job": Err, the rest of the batch is left
          /\ reclaimer' = [pc |-> "failed", stalled_jobs |-> <<>>, reclaimed_count |-> 0]
          /\ processing' = processing
     ELSE /\ processing' = ZRem(processing, Head(reclaimer.stalled_jobs))
          /\ reclaimer' = [reclaimer EXCEPT !.pc = "zadd"]
  /\ UNCHANGED <<main, retry, dead, promoter, loc, hist>>
  /\ TaskVarsUnchanged

\* Mutant of ReclaimZadd: the reclaimed job is written back with one more attempt.
ReclaimZadd_counting ==
  /\ reclaimer.pc = "zadd"
  /\ LET job_json == Head(reclaimer.stalled_jobs)
         rest == Tail(reclaimer.stalled_jobs)
     IN /\ \E job \in from_str(job_json) :
             main' = ZAdd(main, to_string([job EXCEPT !.retries = unwrap_or(@, 0) + 1]),
                          timestamp(unwrap_or(job.scheduled_at, now)))
        /\ loc' = PutBack(loc, job_json)
        /\ reclaimer' = [pc |-> IF rest = <<>> THEN "idle" ELSE "zrem",
                         stalled_jobs |-> rest,
                         reclaimed_count |-> reclaimer.reclaimed_count + 1]
  /\ UNCHANGED <<processing, retry, dead, promoter, hist>>
  /\ TaskVarsUnchanged

\* JobQueue::reclaim_stalled_jobs, per entry: ZADD main job_json scheduled_at ?? now.
ReclaimZadd ==
  /\ reclaimer.pc = "zadd"
  /\ LET job_json == Head(reclaimer.stalled_jobs)
         rest == Tail(reclaimer.stalled_jobs)
     IN /\ \E job \in from_str(job_json) :
             main' = ZAdd(main, job_json, timestamp(unwrap_or(job.scheduled_at, now)))
        /\ loc' = PutBack(loc, job_json)
        /\ reclaimer' = [pc |-> IF rest = <<>> THEN "idle" ELSE "zrem",
                         stalled_jobs |-> rest,
                         reclaimed_count |-> reclaimer.reclaimed_count + 1]
  /\ UNCHANGED <<processing, retry, dead, promoter, hist>>
  /\ TaskVarsUnchanged

\* The reclaimer's loop after Err: log, wait for the next tick of its interval.
ReclaimResume ==
  /\ reclaimer.pc = "failed"
  /\ reclaimer' = [pc |-> "idle", stalled_jobs |-> <<>>, reclaimed_count |-> 0]
  /\ UNCHANGED <<store, promoter, loc, hist>>
  /\ TaskVarsUnchanged

\* The store command process_retry_queue is about to issue returns Err.
PromoteError ==
  /\ promoter.pc \in {"idle", "zrem", "zadd"}
  /\ promoter.pc = "zrem" => ~is_err(Head(promoter.retry_jobs))
  /\ promoter' = [pc |-> "failed", retry_jobs |-> <<>>]
  /\ UNCHANGED <<store, reclaimer, loc, hist>>
  /\ TaskVarsUnchanged

\* The store command reclaim_stalled_jobs is about to issue returns Err.
ReclaimError ==
  /\ reclaimer.pc \in {"idle", "zrem", "zadd"}
  /\ reclaimer.pc = "zrem" => ~is_err(Head(reclaimer.stalled_jobs))
  /\ reclaimer' = [pc |-> "failed", stalled_jobs |-> <<>>, reclaimed_count |-> 0]
  /\ UNCHANGED <<store, promoter, loc, hist>>
  /\ TaskVarsUnchanged

PromoterStep == PromoteRead \/ PromoteZrem \/ PromoteZadd
ReclaimerStep == ReclaimRead \/ ReclaimZrem \/ ReclaimZadd

\* ------------------------------------------------------------ specifications
\* A worker between two core operations: about to dequeue, inside its processor, or killed.
WorkerQuiet(w) == pc[w] \in {"idle", "process", "poll_sleep", "err_sleep", "dead"}

\* A periodic task between two core operations.
TaskQuiet(task) == task.pc \in {"idle", "failed", "panicked"}

\* No task is inside a core operation.
Quiet ==
  /\ \A w \in Workers : WorkerQuiet(w)
  /\ TaskQuiet(promoter)
  /\ TaskQuiet(reclaimer)

\* Only worker w may be inside a core operation.
OnlyWorker(w) ==
  /\ \A v \in Workers \ {w} : WorkerQuiet(v)
  /\ TaskQuiet(promoter)
  /\ TaskQuiet(reclaimer)

OnlyPromoter == (\A w \in Workers : WorkerQuiet(w)) /\ TaskQuiet(reclaimer)
OnlyReclaimer == (\A w \in Workers : WorkerQuiet(w)) /\ TaskQuiet(promoter)

\* Core operations run one at a time, each to its end (the clock stands still while
\* one runs); processors run concurrently with everything.
Next ==
  \/ Quiet /\ Tick
  \/ Quiet /\ Enqueue
  \/ \E w \in Workers : OnlyWorker(w) /\ WorkerStep(w)
  \/ \E w \in Workers : Quiet /\ Kill(w)
  \/ OnlyPromoter /\ PromoterStep
  \/ OnlyReclaimer /\ ReclaimerStep

Spec == Init /\ [][Next]_vars

\* The pool over a store that may hold an entry that does not deserialize, older than
\* every job, in main, processing and retry; store commands may fail; producers also
\* pass bodies that lack a required key.
ErrConfig == [SmallConfig EXCEPT !.jobs = 1, !.horizon = 1, !.bodies = Bodies \cup MalformedBodies]

Corrupted(present) == IF present THEN {[member |-> CorruptEntry, score |-> 0 - 1]} ELSE {}

ErrInit ==
  \E m, p, r \in BOOLEAN : InitStore(ErrConfig, Corrupted(m), Corrupted(p), Corrupted(r))

ErrNext ==
  \/ Next
  \/ \E w \in Workers : OnlyWorker(w) /\ StoreError(w)
  \/ \E w \in Workers : OnlyWorker(w) /\ ErrorSleep(w)
  \/ OnlyPromoter /\ PromoteError
  \/ OnlyPromoter /\ PromoteResume
  \/ OnlyReclaimer /\ ReclaimError
  \/ OnlyReclaimer /\ ReclaimResume

ErrSpec == ErrInit /\ [][ErrNext]_vars

\* Every store command of every task interleaves with every other.
ConcNext ==
  \/ Tick
  \/ Enqueue
  \/ \E w \in Workers : WorkerStep(w)
  \/ \E w \in Workers : Kill(w)
  \/ PromoterStep
  \/ ReclaimerStep

ConcInit == InitWith(OneJobConfig) \/ InitWith(NoRetryConfig)

ConcSpec == ConcInit /\ [][ConcNext]_vars

\* The pool with its tasks scheduled fairly: the runtime keeps running every live
\* task, every processor returns, and the clock advances.
Fairness ==
  /\ WF_vars(Quiet /\ Tick)
  /\ \A w \in 1..2 : WF_vars(w \in Workers /\ OnlyWorker(w) /\ WorkerStep(w))
  /\ WF_vars(OnlyPromoter /\ PromoterStep)
  /\ WF_vars(OnlyReclaimer /\ ReclaimerStep)

FairSpec == InitWith(SmallConfig) /\ [][Next]_vars /\ Fairness

\* The pool with the workers' polls of an empty main queue as steps of their own.
PollConfig == [SmallConfig EXCEPT !.jobs = 1]

PollInit == InitWith(PollConfig) \/ InitWith(DeadLetterConfig)

PollNext ==
  \/ Next
  \/ \E w \in Workers : OnlyWorker(w) /\ DequeueNone(w)
  \/ \E w \in Workers : OnlyWorker(w) /\ PollSleep(w)

PollSpec == PollInit /\ [][PollNext]_vars

\* ------------------------------------------------------------ claims
\* The ids of the jobs that have a record in the dead-letter list.
DeadIds == {IdOf(dead[i].original_job) : i \in DOMAIN dead}

Enqueued == 1..next_id

\* The workers dequeue has returned a job to, and that have not finished with it.
Holding(w) == pc[w] \notin {"idle", "poll_sleep", "deq_zrem", "deq_zadd"}

\* C1: an entry inserted into main once is returned to at most one Dequeue caller
\* until reclaim or retry promotion puts it back: no two workers hold the same
\* serialized job.
C1_DequeueExclusive ==
  \A v, w \in Workers :
    (v # w /\ loc[v].sole /\ loc[w].sole) => loc[v].job_json # loc[w].job_json

\* C2: between core operations every job id is present in at most one of main,
\* processing and retry.
C2_SinglePresence ==
  Quiet => \A id \in Enqueued :
             /\ ~(id \in Ids(main) /\ id \in Ids(processing))
             /\ ~(id \in Ids(main) /\ id \in Ids(retry))
             /\ ~(id \in Ids(processing) /\ id \in Ids(retry))

Present(id) == id \in Ids(main) \cup Ids(processing) \cup Ids(retry) \cup DeadIds

\* C3: whenever no task is inside a core operation, every enqueued job for which no
\* processor has returned success is present in main, processing, retry or dead-letter.
C3_NoLoss ==
  Quiet => \A id \in Enqueued : id \notin succeeded => Present(id)

\* C4: once max_retries processor invocations of a job have failed and the Retry
\* calls have returned, the job is in dead-letter (unless an invocation succeeded).
C4_DeadLetterWithinMaxRetries ==
  Quiet => \A id \in Enqueued :
             (failures[id] >= config.max_retries /\ id \notin succeeded)
               => id \in DeadIds \cup evicted

\* C7: the dead-letter list never holds more than dead_letter_max_size records.
C7_DeadLetterCap == Len(dead) <= config.dead_letter_max_size

\* C6: when the reclaimer runs it takes every entry of processing whose lease score
\* is <= now, and an entry a killed worker held is then back in main, unchanged
\* (same attempts), ready for the next Dequeue, and gone from processing.
C6_CrashReclaim ==
  [][/\ (reclaimer.pc = "idle" /\ reclaimer'.pc = "zrem")
          => \A e \in processing :
               e.score <= timestamp(now) => e.member \in Range(reclaimer'.stalled_jobs)
     /\ \A w \in Workers :
          (/\ pc[w] = "dead"
           /\ reclaimer.pc = "zadd" /\ reclaimer'.pc # "zadd"
           /\ Head(reclaimer.stalled_jobs) = loc[w].job_json)
          => /\ \E e \in main' : /\ e.member = loc[w].job_json
                                 /\ RetriesOf(e.member) = loc[w].job.retries
                                 /\ e.score <= timestamp(now)
             /\ loc[w].job_json \notin Members(processing')]_vars

\* C6's case: the job a killed worker held has been reclaimed, dequeued by another
\* worker, processed with success, and is being removed from processing.
C6_Witness ==
  \E v, w \in Workers :
    /\ pc[w] = "dead"
    /\ pc[v] = "cmp_zrem"
    /\ loc[v].target = loc[w].job_json

\* C8: a DeadLetter call that finds the list at capacity leaves it as it found it
\* less the oldest record, with the new record at the end.
C8_FifoEviction ==
  \A w \in Workers :
    (pc[w] = "dl_zrem" /\ Len(loc[w].dead_seen) >= config.dead_letter_max_size)
      => dead = Append(Tail(loc[w].dead_seen), loc[w].dlq_json)

\* C8's case: with dead_letter_max_size = 2 and A, B in the list, C was pushed and
\* the list is B, C.
C8_Witness ==
  \E w \in Workers :
    /\ pc[w] = "dl_zrem"
    /\ config.dead_letter_max_size = 2
    /\ Len(loc[w].dead_seen) = 2
    /\ dead = <<loc[w].dead_seen[2], loc[w].dlq_json>>
    /\ loc[w].dead_seen[1] # loc[w].dead_seen[2]

\* C9: when Retry or DeadLetter returns, the entry Dequeue put into processing for
\* the job is no longer there.
C9_RetryRemovesFromProcessing ==
  [][\A w \in Workers :
       (pc[w] \in {"rt_zrem", "dl_zrem"} /\ pc'[w] = "idle")
         => loc[w].job_json \notin Members(processing')]_vars

\* C10: Dequeue never returns a job while now < scheduled_at.
C10_NotBeforeScheduledAt ==
  \A w \in Workers : Holding(w) => loc[w].job.scheduled_at <= now

C11_RetryRouting ==
  [][\A w \in Workers :
       LET job == loc[w].job
           next == unwrap_or(job.retries, 0) + 1
       IN /\ (pc[w] = "rt_zadd" /\ pc'[w] = "rt_zrem")
             => /\ next < config.max_retries
                /\ dead' = dead
                /\ \E e \in retry' :
                     /\ IdOf(e.member) = job.id
                     /\ RetriesOf(e.member) = next
                     /\ e.member[6] = now + calculate_backoff_delay(next)
                     /\ e.score = timestamp(e.member[6])
                     /\ retry' \ {e} = {x \in retry : x.member # e.member}
          /\ (pc[w] = "rt_zrem" /\ pc'[w] = "idle") => (retry' = retry /\ dead' = dead)
          /\ (pc[w] \in {"dl_llen", "dl_lpop", "dl_zrem"} /\ pc'[w] # pc[w])
             => (retry' = retry /\ next >= config.max_retries)
          /\ (pc[w] = "dl_rpush" /\ pc'[w] = "dl_zrem")
             => /\ next >= config.max_retries
                /\ retry' = retry
                /\ Len(dead') = Len(dead) + 1
                /\ SubSeq(dead', 1, Len(dead)) = dead
                /\ IdOf(dead'[Len(dead')].original_job) = job.id
                /\ dead'[Len(dead')].total_attempts = next]_vars

\* C11's case: a job went through retry once (attempts 1) and its second failure was
\* dead-lettered with total_attempts = 2 = max_retries.
C11_Witness ==
  /\ config.max_retries = 2
  /\ \E i \in DOMAIN dead :
       /\ dead[i].total_attempts = 2
       /\ RetriesOf(dead[i].original_job) = 1

\* C12: for a job in processing, a second Complete(job_id) right after the first
\* leaves the partitions as the first call left them.
C12_IdempotentCompletion ==
  \A w \in Workers :
    (pc[w] = "cmp_zrange" /\ loc[w].job.id \in Ids(processing))
      => LET once == complete_job(processing, loc[w].job.id)
         IN complete_job(once, loc[w].job.id) = once

\* C13: after the reclaimer has put a worker's job back into main, that worker's late
\* Complete changes no partition.
C13_LateCompleteNoOp ==
  [][\A w \in Workers :
       (pc[w] \in {"cmp_zrange", "cmp_zrem"} /\ pc'[w] # pc[w] /\ ~loc[w].sole)
         => store' = store]_vars

\* C14: a Dequeue that fails on an entry of main that does not deserialize has removed
\* that entry from main when it returns.
C14_CorruptEntryRemoved ==
  [][\A w \in Workers :
       (pc[w] = "idle" /\ pc'[w] = "err_sleep" /\ loc'[w].job_json = CorruptEntry)
         => CorruptEntry \notin Members(main')]_vars

\* C15: a Complete, ReclaimStalled or PromoteRetry that fails on an entry that does
\* not deserialize has removed that entry from its partition when it returns.
C15_CorruptEntryUnblocked ==
  [][/\ \A w \in Workers :
          (/\ pc[w] = "cmp_zrange" /\ pc'[w] = "err_sleep"
           /\ loc'[w].error = "Failed to deserialize processing job")
          => CorruptEntry \notin Members(processing')
     /\ (/\ reclaimer.pc = "zrem" /\ reclaimer'.pc = "failed"
         /\ Head(reclaimer.stalled_jobs) = CorruptEntry)
        => CorruptEntry \notin Members(processing')
     /\ (/\ promoter.pc = "zrem" /\ promoter'.pc = "failed"
         /\ Head(promoter.retry_jobs) = CorruptEntry)
        => CorruptEntry \notin Members(retry')]_vars

\* C16: after an error of Dequeue, Complete or Retry the worker's next step is the
\* start of a new iteration; after an error of PromoteRetry or ReclaimStalled the
\* task's next step is its next run; no task ends on an error.
C16_NoErrorEndsTask ==
  [][/\ \A w \in Workers :
          /\ (pc[w] = "err_sleep" /\ pc'[w] # pc[w]) => pc'[w] = "idle"
          /\ (pc[w] # "dead" /\ pc'[w] = "dead") => pc[w] = "process"
     /\ (promoter.pc = "failed" /\ promoter' # promoter) => promoter'.pc = "idle"
     /\ (reclaimer.pc = "failed" /\ reclaimer' # reclaimer) => reclaimer'.pc = "idle"
     /\ promoter'.pc # "panicked"
     /\ reclaimer'.pc # "panicked"]_vars

\* C16's case: a worker's Retry failed on a store command after its processor failed
\* and the worker is in its Err arm, about to start over; the promoter and the
\* reclaimer have failed too and wait for their next run.
C16_Witness ==
  /\ promoter.pc = "failed"
  /\ reclaimer.pc = "failed"
  /\ \E w \in Workers : pc[w] = "err_sleep" /\ loc[w].error = "processor error"

\* C17: every job a producer has put into main carries the required keys of its kind.
C17_ProducerValidation ==
  \A e \in main :
    IdOf(e.member) \in Enqueued => RequiredKeys(e.member[2]) \subseteq Range(e.member[3])

\* C18: dead-letter is terminal: between operations, a job id that has a dead-letter
\* record is in none of main, processing and retry.
C18_DeadLetterTerminal ==
  Quiet => DeadIds \cap (Ids(main) \cup Ids(processing) \cup Ids(retry)) = {}

\* C19: success is terminal: a job id that complete_job has removed from processing
\* and that is in no partition does not reappear in main, processing, retry or dead-letter.
C19_SuccessTerminal ==
  [][\A id \in completed : ~Present(id) => ~Present(id)']_vars

\* The growing-backoff pool, and the pool that dead-letters at once.
BackoffInit == InitWith(BackoffConfig) \/ InitWith(DeadLetterConfig)

BackoffSpec == BackoffInit /\ [][Next]_vars

\* C20: backoff monotonicity: an entry that retry_job adds to retry has a score no
\* lower than the entries of the same job already there, and at most the time of the
\* call plus max_backoff.
C20_BackoffMonotone ==
  [][\A e \in retry' \ retry :
       /\ \A f \in retry : IdOf(f.member) = IdOf(e.member) => f.score <= e.score
       /\ e.score <= timestamp(now + Secs(config.max_backoff))]_vars

\* The backoff_multiplier values the pool is configured with: whole numbers, a
\* negative one among them; with 3 the second delay is cut to max_backoff.
Multipliers == {0 - 2, 2, 3}

CalcInit ==
  \/ \E m \in Multipliers : InitWith([BackoffConfig EXCEPT !.backoff_multiplier = m])
  \/ InitWith(DeadLetterConfig)

CalcSpec == CalcInit /\ [][Next]_vars

\* The delay the backoff formula gives for attempt n, in ticks.
Backoff(n) == Secs(Min(config.backoff_multiplier ^ n, config.max_backoff))

\* The entry a step of retry_job put into retry is scheduled one backoff after now.
ScheduledByFormula ==
  \A w \in Workers :
    (pc[w] = "rt_zadd" /\ pc'[w] = "rt_zrem")
      => LET n == unwrap_or(loc[w].job.retries, 0) + 1
         IN \E e \in retry' : /\ IdOf(e.member) = loc[w].job.id
                               /\ RetriesOf(e.member) = n
                               /\ e.member[6] = now + Backoff(n)

DelaysByFormula ==
  \A n \in 1..MaxAttempt :
    /\ calculate_backoff_delay(n) = Backoff(n)
    /\ calculate_backoff_delay(n) <= Secs(config.max_backoff)

\* C21 as stated: for every attempt n >= 1 and every whole multiplier,
\* calculate_backoff_delay(n) = min(1 s * multiplier^n, max_backoff), never more than
\* max_backoff, and a retried job is scheduled that long after the Retry call.
C21_BackoffFormulaAnyMultiplier ==
  [][DelaysByFormula /\ ScheduledByFormula]_vars

\* C21 amended: the same for every whole multiplier >= 0.
C21_BackoffFormula ==
  [][config.backoff_multiplier >= 0 => (DelaysByFormula /\ ScheduledByFormula)]_vars

\* C21's case: with multiplier 2 a job failed at t0 = 0 and was scheduled at t0 + 2 s,
\* failed again at t1 = 2 and is in retry, scheduled at t1 + 4 s.
C21_Witness ==
  /\ config.backoff_multiplier = 2
  /\ now = Secs(2)
  /\ \E e \in retry : RetriesOf(e.member) = 2 /\ e.member[6] = now + Secs(4)

\* C22: monotone attempts: every job in retry has attempts >= 1, and every
\* dead-letter record has total_attempts >= max_retries.
C22_MonotoneAttempts ==
  /\ \A e \in retry : RetriesOf(e.member) >= 1
  /\ \A i \in DOMAIN dead : dead[i].total_attempts >= config.max_retries

\* C22's case: one job is in retry after its first failure while another has been
\* dead-lettered after its second.
C22_Witness ==
  /\ \E e \in retry : RetriesOf(e.member) = 1
  /\ \E i \in DOMAIN dead : dead[i].total_attempts = 2 /\ config.max_retries = 2

\* The pool of one worker that retries, and the pool that dead-letters at once.
RetryInit == InitWith(RetryConfig) \/ InitWith(DeadLetterConfig)

RetrySpec == RetryInit /\ [][Next]_vars

\* C23: with one worker and max_retries = 5, a job whose processor fails twice and
\* then succeeds is dispatched the third time with attempts = 2, and when the
\* successful Complete returns main, processing, retry and dead-letter are empty.
C23_RetryThenSucceed ==
  [][(config = RetryConfig /\ failures[1] = 2)
       => /\ (pc[1] = "deq_zadd" /\ pc'[1] = "process") => loc[1].job.retries = 2
          /\ (pc[1] \in {"cmp_zrange", "cmp_zrem"} /\ pc'[1] = "idle")
               => (main' = {} /\ processing' = {} /\ retry' = {} /\ dead' = <<>>)]_vars

\* C24: worker dispatch.  A dequeued job of a registered kind is passed to its
\* processor; the worker enters Complete exactly when the processor returned success,
\* and enters Retry when it returned a failure or an error, or, without any processor
\* being invoked, when none is registered for the job's kind.
C24_WorkerDispatch ==
  [][\A w \in Workers :
       LET id == loc[w].job.id
           inRetry == pc'[w] \in {"rt_zadd", "dl_llen"}
       IN /\ (pc[w] = "deq_zadd" /\ pc'[w] # pc[w] /\ pc'[w] # "dead")
               => IF loc[w].job.job_type \in Registered
                  THEN pc'[w] = "process" /\ id \in delivered'
                  ELSE inRetry /\ delivered' = delivered
          /\ (pc[w] = "process" /\ pc'[w] # pc[w] /\ pc'[w] # "dead")
               => /\ failures' = failures => pc'[w] = "cmp_zrange" /\ id \in succeeded'
                  /\ failures' # failures => inRetry /\ succeeded' = succeeded
          /\ (pc[w] # "cmp_zrange" /\ pc'[w] = "cmp_zrange")
               => pc[w] = "process" /\ failures' = failures
          /\ (pc[w] \notin {"rt_zadd", "dl_llen"} /\ inRetry)
               => \/ pc[w] = "process" /\ failures'[id] = failures[id] + 1
                  \/ pc[w] = "deq_zadd" /\ loc[w].job.job_type \notin Registered]_vars

\* C24's case: a job failed, was retried, was dispatched again and succeeded; the
\* worker is in Complete.
C24_Witness ==
  \E w \in Workers :
    /\ pc[w] = "cmp_zrem"
    /\ loc[w].job.retries = 1
    /\ failures[loc[w].job.id] = 1
    /\ loc[w].job.id \in succeeded

\* C25: per-entry atomic moves: whenever a task reads the store (a Dequeue, a
\* Complete, the promoter or the reclaimer issues its first command), every entry
\* another task is moving is in its source or its destination partition.
C25_AtomicMoves ==
  [][(\/ \E v \in Workers : pc[v] \in {"idle", "cmp_zrange"} /\ pc'[v] # pc[v]
      \/ promoter.pc = "idle" /\ promoter'.pc = "zrem"
      \/ reclaimer.pc = "idle" /\ reclaimer'.pc = "zrem")
     => /\ \A w \in Workers :
             pc[w] = "deq_zadd"
               => loc[w].job_json \in Members(main) \cup Members(processing)
        /\ promoter.pc = "zadd"
             => Head(promoter.retry_jobs) \in Members(retry) \cup Members(main)
        /\ reclaimer.pc = "zadd"
             => Head(reclaimer.stalled_jobs) \in Members(processing) \cup Members(main)]_vars

\* C26: when a store command of Dequeue, Retry, PromoteRetry or ReclaimStalled fails
\* after the earlier ones succeeded, the job being moved is still in main, processing,
\* retry or dead-letter once the error has surfaced.
C26_ErrorKeepsJob ==
  [][/\ \A w \in Workers :
          (/\ pc[w] \in {"deq_zrem", "deq_zadd", "rt_zadd", "rt_zrem",
                         "dl_llen", "dl_lpop", "dl_rpush", "dl_zrem"}
           /\ pc'[w] = "err_sleep")
          => Present(loc[w].job.id)'
     /\ (promoter.pc \in {"zrem", "zadd"} /\ promoter'.pc = "failed"
           /\ ~is_err(Head(promoter.retry_jobs)))
          => Present(IdOf(Head(promoter.retry_jobs)))'
     /\ (reclaimer.pc \in {"zrem", "zadd"} /\ reclaimer'.pc = "failed"
           /\ ~is_err(Head(reclaimer.stalled_jobs)))
          => Present(IdOf(Head(reclaimer.stalled_jobs)))']_vars

\* C27: ReclaimStalled takes exactly the entries of processing whose lease score is
\* <= now; it removes each from processing and puts it into main, its serialized
\* content unchanged, with score = scheduled_at if set, else now; the other entries
\* stay in processing; the count it returns is the number of entries moved.
C27_ReclaimMovesExpired ==
  [][/\ (reclaimer.pc = "idle" /\ reclaimer'.pc = "zrem")
          => /\ Range(reclaimer'.stalled_jobs)
                  = {e.member : e \in {x \in processing : x.score <= timestamp(now)}}
             /\ Len(reclaimer'.stalled_jobs) = Cardinality(Range(reclaimer'.stalled_jobs))
             /\ reclaimer'.reclaimed_count = 0
             /\ store' = store
     /\ (reclaimer.pc = "zrem" /\ reclaimer'.pc = "zadd")
          => /\ processing' = {e \in processing : e.member # Head(reclaimer.stalled_jobs)}
             /\ \A e \in processing \ processing' : e.score <= timestamp(now)
             /\ UNCHANGED <<main, retry, dead>>
     /\ (reclaimer.pc = "zadd" /\ reclaimer'.pc # "zadd")
          => LET job_json == Head(reclaimer.stalled_jobs)
                 score == IF job_json[6] # NONE THEN timestamp(job_json[6])
                          ELSE timestamp(now)
             IN /\ main' = {e \in main : e.member # job_json}
                              \cup {[member |-> job_json, score |-> score]}
                /\ UNCHANGED <<processing, retry, dead>>
                /\ reclaimer'.reclaimed_count = reclaimer.reclaimed_count + 1
                /\ reclaimer'.stalled_jobs = Tail(reclaimer.stalled_jobs)
                /\ reclaimer'.pc = IF Tail(reclaimer.stalled_jobs) = <<>>
                                   THEN "idle" ELSE "zrem"]_vars

\* C27's case: one run of the reclaimer has moved two entries and returned 2, and an
\* entry whose lease has not expired is still in processing.
C27_Witness ==
  /\ reclaimer.pc = "idle"
  /\ reclaimer.reclaimed_count = 2
  /\ \E e \in processing : e.score > timestamp(now)

\* C28: a run of ReclaimStalled that finds no entry of processing with score <= now
\* returns 0 and leaves main, processing, retry and dead-letter as they were.
C28_ReclaimNothingStalled ==
  [][(/\ reclaimer.pc = "idle"
      /\ reclaimer' # reclaimer
      /\ \A e \in processing : e.score > timestamp(now))
     => /\ reclaimer'.pc = "idle"
        /\ reclaimer'.reclaimed_count = 0
        /\ store' = store]_vars

\* C28's case: the reclaimer once moved a worker's job back to main (the worker no
\* longer holds its entry alone), and a later run, with processing holding only
\* unexpired leases, returned 0.
C28_Witness ==
  /\ reclaimer.pc = "idle"
  /\ reclaimer.reclaimed_count = 0
  /\ processing # {}
  /\ \A e \in processing : e.score > timestamp(now)
  /\ \E w \in Workers : pc[w] = "process" /\ ~loc[w].sole /\ loc[w].job.retries = NONE

\* C29: PromoteRetry takes every entry of retry whose score is <= now and moves it
\* into main with the score it had in retry (its scheduled_at, in whole seconds) and
\* its serialized content unchanged; the other entries stay in retry; processing and
\* dead-letter are not changed.
C29_PromoteMovesDue ==
  [][/\ \A e \in retry : e.score = timestamp(e.member[6])
     /\ (promoter.pc = "idle" /\ promoter'.pc = "zrem")
          => /\ Range(promoter'.retry_jobs)
                  = {e.member : e \in {x \in retry : x.score <= timestamp(now)}}
             /\ store' = store
     /\ (promoter.pc = "zrem" /\ promoter'.pc = "zadd")
          => /\ retry' = {e \in retry : e.member # Head(promoter.retry_jobs)}
             /\ \A e \in retry \ retry' : e.score <= timestamp(now)
             /\ UNCHANGED <<main, processing, dead>>
     /\ (promoter.pc = "zadd" /\ promoter'.pc # "zadd")
          => LET job_json == Head(promoter.retry_jobs)
             IN /\ main' = {e \in main : e.member # job_json}
                              \cup {[member |-> job_json, score |-> timestamp(job_json[6])]}
                /\ UNCHANGED <<processing, retry, dead>>
                /\ promoter'.retry_jobs = Tail(promoter.retry_jobs)
                /\ promoter'.pc = IF Tail(promoter.retry_jobs) = <<>>
                                  THEN "idle" ELSE "zrem"]_vars

\* C29's case: the promoter has moved a retried job whose time had come into main,
\* some time after it was due, and left in retry one that is not due yet.
C29_Witness ==
  /\ promoter.pc = "idle"
  /\ \E e \in main : RetriesOf(e.member) = 1 /\ e.score <= timestamp(now)
  /\ \E f \in retry : f.score > timestamp(now)

\* C30: the entry a Dequeue reads has a score <= now and no entry of main that is
\* ready at that time has a strictly smaller score.
C30_DequeueSmallestScore ==
  [][\A w \in Workers :
       (pc[w] = "idle" /\ pc'[w] = "deq_zrem")
         => \E e \in main :
              /\ e.member = loc'[w].job_json
              /\ e.score <= timestamp(now)
              /\ \A f \in main : f.score <= timestamp(now) => e.score <= f.score]_vars

\* C30's case: a Dequeue has read an entry while main also holds a ready entry of a
\* strictly higher score that the promoter put back.
C30_Witness ==
  \E w \in Workers :
    /\ pc[w] = "deq_zrem"
    /\ \E e, f \in main :
         /\ e.member = loc[w].job_json
         /\ e.score < f.score
         /\ f.score <= timestamp(now)
         /\ RetriesOf(f.member) = 1

\* C31: lease.  A Dequeue that returns leaves the job in processing with score
\* now + visibility_timeout and absent from main; an entry whose lease score is > now
\* is not moved by ReclaimStalled, and no Dequeue returns a job while another worker
\* holds it under a lease whose score is > now.
C31_Lease ==
  [][/\ \A w \in Workers :
          (pc[w] = "deq_zadd" /\ pc'[w] \notin {"deq_zadd", "dead"})
            => /\ [member |-> loc[w].job_json,
                    score |-> timestamp(now + Secs(config.visibility_timeout))]
                    \in processing'
               /\ loc[w].job_json \notin Members(main')
               /\ \A v \in Workers \ {w} :
                    (Holding(v) /\ pc[v] # "dead" /\ loc[v].job.id = loc[w].job.id)
                      => ~\E e \in processing : /\ e.member = loc[v].job_json
                                                 /\ e.score > timestamp(now)
     /\ (reclaimer.pc = "zrem" /\ reclaimer'.pc = "zadd")
          => \A e \in processing \ processing' : e.score <= timestamp(now)]_vars

\* C32: Complete(job_id) for a job in processing removes exactly the processing
\* entries whose id is job_id, keeps every other processing entry, and leaves main,
\* retry and dead-letter unchanged.
C32_CompleteRemovesJob ==
  [][\A w \in Workers :
       (pc[w] = "cmp_zrem" /\ pc'[w] = "idle" /\ loc[w].job.id \in Ids(processing))
         => /\ processing' = {e \in processing : IdOf(e.member) # loc[w].job.id}
            /\ main' = main /\ retry' = retry /\ dead' = dead]_vars

\* C33: Enqueue adds exactly one entry to main, with a new id, no attempts counted and
\* score scheduled_at if set, else now (in whole seconds), keeps every entry main had,
\* and leaves processing, retry and dead-letter unchanged.
C33_EnqueueAddsOne ==
  [][next_id' = next_id + 1
       => /\ \E e \in main' \ main :
               /\ main' = main \cup {e}
               /\ e.member \notin Members(main)
               /\ IdOf(e.member) = next_id'
               /\ IdOf(e.member) \notin Ids(main) \cup Ids(processing) \cup Ids(retry) \cup DeadIds
               /\ unwrap_or(RetriesOf(e.member), 0) = 0
               /\ \A job \in from_str(e.member) :
                    e.score = timestamp(unwrap_or(job.scheduled_at, now))
          /\ Cardinality(main') = Cardinality(main) + 1
          /\ processing' = processing /\ retry' = retry /\ dead' = dead]_vars

\* C33's case: two Enqueue calls have left two entries of distinct ids in main, one
\* of them delayed.
C33_Witness ==
  /\ next_id = 2
  /\ Cardinality(main) = 2
  /\ Ids(main) = {1, 2}
  /\ \E e \in main : \E job \in from_str(e.member) :
       job.scheduled_at # NONE /\ e.score = timestamp(job.scheduled_at)

\* Nothing in main is ready: main is empty or every entry has score > now.
NothingReady == \A e \in main : e.score > timestamp(now)

\* C34: a Dequeue called when main is empty or holds only entries of score > now
\* returns none and changes no partition, and a Dequeue returns none only then; the
\* worker then sleeps and starts its next iteration, which calls Dequeue again.
C34_DequeueNothingReady ==
  [][\A w \in Workers :
       /\ (pc[w] = "idle" /\ pc'[w] # "idle" /\ NothingReady)
            => pc'[w] = "poll_sleep" /\ store' = store
       /\ (pc[w] = "idle" /\ pc'[w] = "poll_sleep") => NothingReady /\ store' = store
       /\ (pc[w] = "poll_sleep" /\ pc'[w] # "poll_sleep")
            => pc'[w] = "idle" /\ store' = store]_vars

\* C34's case: a worker sleeps after a Dequeue that returned none while main holds
\* a delayed job that is not due yet.
C34_Witness ==
  \E w \in Workers :
    /\ pc[w] = "poll_sleep"
    /\ main # {}
    /\ NothingReady

\* C35: as long as no worker has been killed (and no store command has failed),
\* processing holds no more entries than there are workers.
C35_ProcessingBounded ==
  (\A w \in Workers : pc[w] # "dead") => Cardinality(processing) <= config.worker_count

\* The number of events of a level in a sequence of events.
CountOf(level, events) == Cardinality({i \in DOMAIN events : events[i] = level})

\* C36: the step of a DeadLetter call that removes the oldest record from the full
\* list emits exactly one warning, and every other step of the call emits none.
C36_EvictionWarns ==
  [][\A w \in Workers :
       (pc[w] \in {"dl_llen", "dl_lpop", "dl_rpush", "dl_zrem"} /\ pc'[w] # pc[w])
         => CountOf("warn", send_to_dead_letter_events(w))
              = IF pc[w] = "dl_lpop" /\ Len(dead') < Len(dead) THEN 1 ELSE 0]_vars

\* C37: the dead-letter list never holds two records of the same original job id.
C37_OneDeadLetterRecord ==
  \A i, j \in DOMAIN dead :
    i # j => IdOf(dead[i].original_job) # IdOf(dead[j].original_job)

\* The attempts a serialized job has behind it: retries, None counting as 0.
AttemptsOf(s) == unwrap_or(RetriesOf(s), 0)

\* Serialized jobs r and s are the same job: same id, kind, body (the keys of the
\* payload map, in whatever order they are written) and created_at.
SameIdentity(r, s) ==
  /\ IdOf(r) = IdOf(s)
  /\ r[2] = s[2]
  /\ Range(r[3]) = Range(s[3])
  /\ r[5] = s[5]

\* Entry e is written while the store holds no entry of its job with more attempts.
NoFewerAttempts(e) ==
  \A f \in main \cup processing \cup retry :
    IdOf(f.member) = IdOf(e.member) => AttemptsOf(e.member) >= AttemptsOf(f.member)

\* C38: Retry, PromoteRetry and ReclaimStalled preserve a job's identity.  The entry
\* Retry writes has the id, kind, body and created_at of the dequeued job and one
\* attempt more; the entry PromoteRetry or ReclaimStalled writes is the serialized
\* job it removed; and none of them writes an entry with fewer attempts than an
\* entry of the same job id already has.
C38_IdentityPreserved ==
  [][/\ \A w \in Workers :
          (pc[w] = "rt_zadd" /\ pc'[w] = "rt_zrem")
            => \A e \in retry' \ retry :
                 /\ SameIdentity(e.member, loc[w].job_json)
                 /\ AttemptsOf(e.member) = AttemptsOf(loc[w].job_json) + 1
                 /\ NoFewerAttempts(e)
     /\ (promoter.pc = "zadd" /\ promoter'.pc \in {"idle", "zrem"})
          => \A e \in main' \ main :
               e.member = Head(promoter.retry_jobs) /\ NoFewerAttempts(e)
     /\ (reclaimer.pc = "zadd" /\ reclaimer'.pc \in {"idle", "zrem"})
          => \A e \in main' \ main :
               e.member = Head(reclaimer.stalled_jobs) /\ NoFewerAttempts(e)]_vars

\* C39: every entry PromoteRetry or ReclaimStalled inserts into main has score <= now
\* when it is inserted, so the next Dequeue can return it.
C39_InsertedEligible ==
  [][/\ (promoter.pc = "zadd" /\ promoter'.pc \in {"idle", "zrem"})
          => /\ \E e \in main' : /\ e.member = Head(promoter.retry_jobs)
                                  /\ e.score <= timestamp(now)
             /\ \A e \in main' \ main : e.score <= timestamp(now)
     /\ (reclaimer.pc = "zadd" /\ reclaimer'.pc \in {"idle", "zrem"})
          => /\ \E e \in main' : /\ e.member = Head(reclaimer.stalled_jobs)
                                  /\ e.score <= timestamp(now)
             /\ \A e \in main' \ main : e.score <= timestamp(now)]_vars

\* C39's case: the reclaimer has put a job back and main holds a promoted job (a
\* retried one, scheduled in the past by now) that the next Dequeue can return.
C39_Witness ==
  /\ reclaimer.pc = "idle" /\ reclaimer.reclaimed_count >= 1
  /\ promoter.pc = "idle"
  /\ \E e \in main : /\ RetriesOf(e.member) = 1
                      /\ e.score <= timestamp(now)
                      /\ e.member \in Range(ZRangeByScore(main, timestamp(now)))

\* C40: for max_retries >= 1, every job in main, processing or retry has attempts
\* < max_retries; a failed job whose next attempt count reaches max_retries goes to
\* dead-letter, and only such a job does.
C40_AttemptsBelowMax ==
  config.max_retries >= 1
    => /\ \A e \in main \cup processing \cup retry :
            ~is_err(e.member) => AttemptsOf(e.member) < config.max_retries
       /\ \A w \in Workers :
            /\ pc[w] \in {"rt_zadd", "rt_zrem"}
                 => AttemptsOf(loc[w].job_json) + 1 < config.max_retries
            /\ pc[w] \in {"dl_llen", "dl_lpop", "dl_rpush", "dl_zrem"}
                 => AttemptsOf(loc[w].job_json) + 1 >= config.max_retries
       /\ \A i \in DOMAIN dead :
            AttemptsOf(dead[i].original_job) + 1 >= config.max_retries

\* C40's case: with max_retries = 2 one job waits in retry with attempts 1, one below
\* the maximum, while a worker is dead-lettering another whose second attempt failed.
C40_Witness ==
  /\ config.max_retries = 2
  /\ \E e \in retry : AttemptsOf(e.member) = config.max_retries - 1
  /\ \E w \in Workers : pc[w] = "dl_rpush" /\ AttemptsOf(loc[w].job_json) = 1

====
